---- MODULE Spec2Model ----
(***************************************************************************)
(* AVR power supply controller (AVRPowerSupply.cpp): the application's     *)
(* event handler, its menu callbacks and menu table, the ADC averaging,    *)
(* the current-sensor poll with its overcurrent shutdown, and the error    *)
(* reporter.  The m8r Menu engine that interprets the table is not part    *)
(* of the sources at hand; it is modelled from the specification's         *)
(* section 4.2.                                                            *)
(***************************************************************************)
EXTENDS Integers, Sequences, FiniteSets, TLC

(* ------------------------------------------------------------------ *)
(* Program constants                                                    *)
(* ------------------------------------------------------------------ *)

ADCAverageCount == 16

numCurLimitValues == 8

\* const uint8_t curLimitValues[] = { 1, 5, 10, 20, 40, 60, 80, 100 }
curLimitValues(i) ==
    CASE i = 0 -> 1 [] i = 1 -> 5 [] i = 2 -> 10 [] i = 3 -> 20
      [] i = 4 -> 40 [] i = 5 -> 60 [] i = 6 -> 80 [] i = 7 -> 100
      [] OTHER -> 0

\* enum class LineDisplayMode { PS1VA, PS2VA, PS12A, V1V2, V3V4, Last }
PS1VA == 0
PS2VA == 1
PS12A == 2
V1V2 == 3
V3V4 == 4
Last == 5

\* The table's prelude (Show(bannerString), Pause(2000)) precedes State(0);
\* it is given the first id after the declared states 0..11.
Banner == 12

\* hysteresis threshold of the overcurrent counter
OverCurrentThreshold == 3

(* ------------------------------------------------------------------ *)
(* Bounds of the model                                                  *)
(* ------------------------------------------------------------------ *)

\* button-down events delivered in one run of SpecSense, of SpecMenu, of Spec
MaxPresses == 6
MaxMenuPresses == 10
MaxSpecPresses == 2
\* the environment stops driving an over-limit current once the counter
\* of that supply has reached this value
MaxOverCount == 6
\* ADC conversions completed in one run of Spec, of SpecSense, of SpecADC
MaxConversions == 2
MaxSenseConversions == 1
MaxAdcConversions == 66
\* error reports in one run
MaxErrors == 1

(* ------------------------------------------------------------------ *)
(* Fixed-width integers                                                 *)
(* ------------------------------------------------------------------ *)

ToUint8(x) == x % 256
ToUint16(x) == x % 65536
ToInt16(x) == LET m == x % 65536 IN IF m >= 32768 THEN m - 65536 ELSE m

\* C integer division truncates toward zero
CDiv(a, b) == IF a >= 0 THEN a \div b ELSE -((-a) \div b)

Supplies == 0..1
Channels == 0..3
\* the ButtonSet<Switch0, Switch1, Switch2>, and each button's index in it
Buttons == {"Switch0", "Switch1", "Switch2"}
ButtonIndex(b) == CASE b = "Switch0" -> 0 [] b = "Switch1" -> 1 [] OTHER -> 2

(* ------------------------------------------------------------------ *)
(* Program state                                                        *)
(* ------------------------------------------------------------------ *)

VARIABLES
    pc,                       \* "run", "halt" inside reportError's while (1), or "undefined"
    errorBuf,                 \* reportError's char buf[12] as the last toHex left it
    menuState,                \* the menu engine's current state id
    menuPausing,              \* a Pause of the current state is pending
    displayEnabled,           \* _displayEnabled
    needsDisplay,             \* _needsDisplay
    lcd,                      \* the two lines the text LCD shows
    shutdownA, shutdownB,     \* _shutdownA, _shutdownB output bits
    statusLED,                \* _statusLED output bit
    busMilliVolts,            \* _busMilliVolts[2]
    shuntMilliAmps,           \* _shuntMilliAmps[2]
    captureSensorValues,      \* _captureSensorValues
    captureADCValue,          \* _captureADCValue
    adcAccumulator,           \* _adcAccumulator[4]
    adcVoltage,               \* _adcVoltage[4]
    adcCurrentChannel,        \* _adcCurrentChannel
    adcCurrentSamples,        \* _adcCurrentSamples
    adcMux,                   \* ADC peripheral: the selected channel
    adcBusy,                  \* ADC peripheral: a conversion is in flight
    adcResult,                \* ADC peripheral: the last conversion's value
    currentLimitIndex,        \* _currentLimitIndex[2]
    currentLimitAdjustIndex,  \* _currentLimitAdjustIndex[2]
    currentLimitAdjustSupply, \* _currentLimitAdjustSupply
    overCurrentCount,         \* _overCurrentCount[2]
    lineDisplayMode,          \* _lineDisplayMode[2]
    steps,                    \* history: the event last handled, its parameter, the calls its handler made
    overPolls,                \* history: consecutive over-limit polls per supply
    sensorRead,               \* history: what the INA219s returned to the last poll
    adcSum,                   \* history: per channel, sum of the samples converted in this window
    adcCount,                 \* history: per channel, samples converted in this window
    adcWindow,                \* history: per channel, sum of the last complete window
    redrawCause,              \* history: why the last handler redrew ("none" if it did not)
    everDrawn,                \* history: updateDisplay has redrawn at least once
    changedSinceDraw,         \* history: a value or mode changed since the last redraw
    fatalReported,            \* history: reportError was called with ErrorConditionFatal
    presses, conversions, errors  \* counters of the bounds

appVars == <<menuState, menuPausing, displayEnabled, needsDisplay, lcd,
             shutdownA, shutdownB, statusLED, busMilliVolts, shuntMilliAmps,
             captureSensorValues, captureADCValue, adcAccumulator, adcVoltage,
             adcCurrentChannel, adcCurrentSamples, adcMux, adcBusy, adcResult,
             currentLimitIndex, currentLimitAdjustIndex, currentLimitAdjustSupply,
             overCurrentCount, lineDisplayMode>>

histVars == <<steps, overPolls, sensorRead, adcSum, adcCount, adcWindow, redrawCause,
              everDrawn, changedSinceDraw, fatalReported,
              presses, conversions, errors>>

vars == <<pc, errorBuf, appVars, histVars>>

\* The application object as one value: the handlers below are functions of it.
App ==
    [ menuState |-> menuState, menuPausing |-> menuPausing,
      displayEnabled |-> displayEnabled, needsDisplay |-> needsDisplay, lcd |-> lcd,
      shutdownA |-> shutdownA, shutdownB |-> shutdownB, statusLED |-> statusLED,
      busMilliVolts |-> busMilliVolts, shuntMilliAmps |-> shuntMilliAmps,
      captureSensorValues |-> captureSensorValues, captureADCValue |-> captureADCValue,
      adcAccumulator |-> adcAccumulator, adcVoltage |-> adcVoltage,
      adcCurrentChannel |-> adcCurrentChannel, adcCurrentSamples |-> adcCurrentSamples,
      adcMux |-> adcMux, adcBusy |-> adcBusy, adcResult |-> adcResult,
      currentLimitIndex |-> currentLimitIndex,
      currentLimitAdjustIndex |-> currentLimitAdjustIndex,
      currentLimitAdjustSupply |-> currentLimitAdjustSupply,
      overCurrentCount |-> overCurrentCount, lineDisplayMode |-> lineDisplayMode,
      steps |-> steps ]

Commit(a) ==
    /\ menuState' = a.menuState
    /\ menuPausing' = a.menuPausing
    /\ displayEnabled' = a.displayEnabled
    /\ needsDisplay' = a.needsDisplay
    /\ lcd' = a.lcd
    /\ shutdownA' = a.shutdownA
    /\ shutdownB' = a.shutdownB
    /\ statusLED' = a.statusLED
    /\ busMilliVolts' = a.busMilliVolts
    /\ shuntMilliAmps' = a.shuntMilliAmps
    /\ captureSensorValues' = a.captureSensorValues
    /\ captureADCValue' = a.captureADCValue
    /\ adcAccumulator' = a.adcAccumulator
    /\ adcVoltage' = a.adcVoltage
    /\ adcCurrentChannel' = a.adcCurrentChannel
    /\ adcCurrentSamples' = a.adcCurrentSamples
    /\ adcMux' = a.adcMux
    /\ adcBusy' = a.adcBusy
    /\ adcResult' = a.adcResult
    /\ currentLimitIndex' = a.currentLimitIndex
    /\ currentLimitAdjustIndex' = a.currentLimitAdjustIndex
    /\ currentLimitAdjustSupply' = a.currentLimitAdjustSupply
    /\ overCurrentCount' = a.overCurrentCount
    /\ lineDisplayMode' = a.lineDisplayMode
    /\ steps' = a.steps

Did(a, what) == [a EXCEPT !.steps = Append(@, what)]

Ran(log, what) == \E k \in 1..Len(log) : log[k] = what

(* ------------------------------------------------------------------ *)
(* The text LCD: two lines, each a kind of content and the numbers shown *)
(* ------------------------------------------------------------------ *)

BlankLine == [kind |-> "", vals |-> <<>>]
TextLine(s) == [kind |-> s, vals |-> <<>>]
ClearedLcd == [i \in 0..1 |-> BlankLine]

\* FixedPoint8_8(value, scale).toString(digits): the digits shown, as the
\* integer value * 10^digits / scale (1234, 1000, 2 shows 1.23, here 123).
FixedPointText(value, scale, digits) ==
    CDiv(value * (IF digits = 2 THEN 100 ELSE IF digits = 1 THEN 10 ELSE 1), scale)

(* ------------------------------------------------------------------ *)
(* MyApp: menu callbacks and helpers                                    *)
(* ------------------------------------------------------------------ *)

\* virtual void show(const _FlashString& s)
show(a, s) == [a EXCEPT !.displayEnabled = FALSE,
                        !.lcd = [ClearedLcd EXCEPT ![0] = TextLine(s)]]

setCurrentLimit(a, supply) ==
    IF supply = 0
    THEN [a EXCEPT !.shutdownA = TRUE, !.statusLED = TRUE]
    ELSE [a EXCEPT !.shutdownB = TRUE, !.statusLED = TRUE]

resetCurrentLimit_OnlyA(a) ==
    [a EXCEPT !.shutdownA = FALSE, !.statusLED = FALSE]

resetCurrentLimit(a) ==
    [a EXCEPT !.shutdownA = FALSE, !.shutdownB = FALSE, !.statusLED = FALSE]

curLimitAdjustMa(a, supply) ==
    ToUint16(curLimitValues(a.currentLimitAdjustIndex[supply]) * 10)

curLimitMa_Pending(a, supply) ==
    ToUint16(curLimitValues(a.currentLimitAdjustIndex[supply]) * 10)

curLimitMa(a, supply) ==
    ToUint16(curLimitValues(a.currentLimitIndex[supply]) * 10)

\* enum class CurrentLimitArrow { None, Supply, Current }
showCurrentLimit(a, supply, arrow) ==
    LET r == resetCurrentLimit(a)
    IN [r EXCEPT !.displayEnabled = FALSE,
                 !.lcd = [r.lcd EXCEPT ![1] =
                            [kind |-> "limit",
                             vals |-> <<IF arrow = "Supply" THEN 1 ELSE 0, supply,
                                        curLimitAdjustMa(r, supply),
                                        IF arrow = "Current" THEN 1 ELSE 0>>]]]

advanceLineDisplay_NoWrap(a, line) ==
    [a EXCEPT !.lineDisplayMode[line] = ToUint8(@ + 1), !.needsDisplay = TRUE]

advanceLineDisplay(a, line) ==
    LET m == ToUint8(a.lineDisplayMode[line] + 1)
    IN [a EXCEPT !.lineDisplayMode[line] = IF m = Last THEN PS1VA ELSE m,
                 !.needsDisplay = TRUE]

display(a) == [a EXCEPT !.displayEnabled = TRUE]
nextLine0(a) == advanceLineDisplay(a, 0)
nextLine1(a) == advanceLineDisplay(a, 1)
curLimit0(a) == [showCurrentLimit(a, 0, "Supply") EXCEPT !.currentLimitAdjustSupply = 0]
curLimit1(a) == [showCurrentLimit(a, 1, "Supply") EXCEPT !.currentLimitAdjustSupply = 1]
adjustCurLimit(a) == showCurrentLimit(a, a.currentLimitAdjustSupply, "Current")
showCurLimit(a) == showCurrentLimit(a, a.currentLimitAdjustSupply, "None")

\* if (++index >= numCurLimitValues) index = 0;   on a uint8_t
IncLimitIndex_NoWrap(index) == ToUint8(index + 1)

IncLimitIndex(index) ==
    LET n == ToUint8(index + 1)
    IN IF n >= numCurLimitValues THEN 0 ELSE n

\* if (index-- == 0) index = numCurLimitValues - 1;   on a uint8_t
DecLimitIndex(index) ==
    IF index = 0 THEN numCurLimitValues - 1 ELSE ToUint8(index - 1)

incCurLimit(a) ==
    [a EXCEPT !.currentLimitAdjustIndex[a.currentLimitAdjustSupply] = IncLimitIndex(@)]

decCurLimit(a) ==
    [a EXCEPT !.currentLimitAdjustIndex[a.currentLimitAdjustSupply] = DecLimitIndex(@)]

acceptCurLimit(a) ==
    [a EXCEPT !.currentLimitIndex =
                  [i \in Supplies |-> a.currentLimitAdjustIndex[i]]]

rejectCurLimit_Commits(a) ==
    [a EXCEPT !.currentLimitIndex =
                  [i \in Supplies |-> a.currentLimitAdjustIndex[i]]]

\* a reject that leaves the pending indices as adjusted
rejectCurLimit_Keeps(a) == a

rejectCurLimit(a) ==
    [a EXCEPT !.currentLimitAdjustIndex =
                  [i \in Supplies |-> a.currentLimitIndex[i]]]

(* ------------------------------------------------------------------ *)
(* MyApp: display                                                       *)
(* ------------------------------------------------------------------ *)

showPSVoltageAndCurrent(a, channel) ==
    [kind |-> "PSVA",
     vals |-> <<channel, FixedPointText(a.busMilliVolts[channel], 1000, 2),
                FixedPointText(a.shuntMilliAmps[channel], 10, 1)>>]

showPSCurrents(a) ==
    [kind |-> "PS12A",
     vals |-> <<FixedPointText(a.shuntMilliAmps[0], 10, 1),
                FixedPointText(a.shuntMilliAmps[1], 10, 1)>>]

showTestVoltages(a, channel0, channel1) ==
    [kind |-> "V",
     vals |-> <<channel0, FixedPointText(a.adcVoltage[channel0], 1000, 2),
                channel1, FixedPointText(a.adcVoltage[channel1], 1000, 2)>>]

\* what the switch of updateDisplay writes on line i
RenderLine(a, i) ==
    LET m == a.lineDisplayMode[i]
    IN CASE m = PS1VA -> showPSVoltageAndCurrent(a, 0)
         [] m = PS2VA -> showPSVoltageAndCurrent(a, 1)
         [] m = PS12A -> showPSCurrents(a)
         [] m = V1V2 -> showTestVoltages(a, 0, 1)
         [] m = V3V4 -> showTestVoltages(a, 2, 3)
         [] OTHER -> BlankLine

updateDisplay_Always(a) ==
    IF ~a.displayEnabled
    THEN a
    ELSE Did([a EXCEPT !.needsDisplay = FALSE,
                       !.lcd = [i \in 0..1 |-> RenderLine(a, i)]], "redraw")

\* a redraw that looks at the dirty flag only
updateDisplay_IgnoresOverride(a) ==
    IF ~a.needsDisplay
    THEN a
    ELSE Did([a EXCEPT !.needsDisplay = FALSE,
                       !.lcd = [i \in 0..1 |-> RenderLine(a, i)]], "redraw")

updateDisplay(a) ==
    IF ~a.displayEnabled \/ ~a.needsDisplay
    THEN a
    ELSE Did([a EXCEPT !.needsDisplay = FALSE,
                       !.lcd = [i \in 0..1 |-> RenderLine(a, i)]], "redraw")

(* ------------------------------------------------------------------ *)
(* MyApp: sampling                                                      *)
(* ------------------------------------------------------------------ *)

\* the averaging of one channel: uint16 accumulator, uint32 v, uint16 result
\* (v is at most 4095 * 5000, far below 2^32: the uint32 product is exact)
AdcAverage_NoRounding(acc) ==
    ToUint16(((acc \div ADCAverageCount) * 5000) \div 1024)

AdcAverage(acc) ==
    LET v0 == ToUint16(acc + ADCAverageCount \div 2) \div ADCAverageCount
        v1 == v0 * 5000
    IN ToUint16(v1 \div 1024)

updateADC(a) ==
    LET ch == a.adcCurrentChannel
        acc == [a.adcAccumulator EXCEPT ![ch] = ToUint16(@ + a.adcResult)]
        ch1 == ToUint8(ch + 1)
        n1 == ToUint8(a.adcCurrentSamples + 1)
    IN IF ch1 >= 4
       THEN IF n1 >= ADCAverageCount
            THEN [a EXCEPT !.adcCurrentChannel = 0,
                           !.adcCurrentSamples = 0,
                           !.adcVoltage = [i \in Channels |-> AdcAverage(acc[i])],
                           !.adcAccumulator = [i \in Channels |-> 0]]
            ELSE [a EXCEPT !.adcCurrentChannel = 0,
                           !.adcCurrentSamples = n1,
                           !.adcAccumulator = acc]
       ELSE [a EXCEPT !.adcCurrentChannel = ch1, !.adcAccumulator = acc]

\* the transform without the clamp of negative readings
ShuntToMilliAmps_NoClamp(raw) == CDiv(raw * 100 + 165, 330)

\* v = shuntMilliVolts(); if (v < 0) v = 0; v = (v * 100 + 165) / 330
ShuntToMilliAmps(raw) ==
    LET v == IF raw < 0 THEN 0 ELSE raw
    IN CDiv(v * 100 + 165, 330)

\* the right-hand side of the comparison: (int16_t) curLimitMa(i) * 10
OverCurrentLimit(a, i) == ToInt16(ToInt16(curLimitMa(a, i)) * 10)

\* one iteration of the loop of updateCurrentSensor
SensorStep_ClearsOnInLimit(a, i, bus, shunt) ==
    LET a1 == IF bus # a.busMilliVolts[i]
              THEN [a EXCEPT !.busMilliVolts[i] = bus, !.needsDisplay = TRUE]
              ELSE a
        v == ShuntToMilliAmps(shunt)
        a2 == IF v # a1.shuntMilliAmps[i]
              THEN [a1 EXCEPT !.shuntMilliAmps[i] = ToInt16(v), !.needsDisplay = TRUE]
              ELSE a1
    IN IF a2.shuntMilliAmps[i] > OverCurrentLimit(a2, i)
       THEN LET a3 == [a2 EXCEPT !.overCurrentCount[i] = ToUint8(@ + 1)]
            IN IF a2.overCurrentCount[i] > OverCurrentThreshold
               THEN setCurrentLimit(a3, i)
               ELSE a3
       ELSE IF i = 0
            THEN [a2 EXCEPT !.overCurrentCount[i] = 0, !.shutdownA = FALSE]
            ELSE [a2 EXCEPT !.overCurrentCount[i] = 0, !.shutdownB = FALSE]

SensorStep_AlwaysDirty(a, i, bus, shunt) ==
    LET a1 == [a EXCEPT !.busMilliVolts[i] = bus, !.needsDisplay = TRUE]
        v == ShuntToMilliAmps(shunt)
        a2 == [a1 EXCEPT !.shuntMilliAmps[i] = ToInt16(v)]
    IN IF a2.shuntMilliAmps[i] > OverCurrentLimit(a2, i)
       THEN LET a3 == [a2 EXCEPT !.overCurrentCount[i] = ToUint8(@ + 1)]
            IN IF a2.overCurrentCount[i] > OverCurrentThreshold
               THEN setCurrentLimit(a3, i)
               ELSE a3
       ELSE [a2 EXCEPT !.overCurrentCount[i] = 0]

\* an iteration that leaves the counter of a supply alone while that supply
\* is shut down
SensorStep_HoldsWhileLatched(a, i, bus, shunt) ==
    LET a1 == IF bus # a.busMilliVolts[i]
              THEN [a EXCEPT !.busMilliVolts[i] = bus, !.needsDisplay = TRUE]
              ELSE a
        v == ShuntToMilliAmps(shunt)
        a2 == IF v # a1.shuntMilliAmps[i]
              THEN [a1 EXCEPT !.shuntMilliAmps[i] = ToInt16(v), !.needsDisplay = TRUE]
              ELSE a1
    IN IF (IF i = 0 THEN a.shutdownA ELSE a.shutdownB)
       THEN a2
       ELSE IF a2.shuntMilliAmps[i] > OverCurrentLimit(a2, i)
            THEN LET a3 == [a2 EXCEPT !.overCurrentCount[i] = ToUint8(@ + 1)]
                 IN IF a2.overCurrentCount[i] > OverCurrentThreshold
                    THEN setCurrentLimit(a3, i)
                    ELSE a3
            ELSE [a2 EXCEPT !.overCurrentCount[i] = 0]

SensorStep(a, i, bus, shunt) ==
    LET a1 == IF bus # a.busMilliVolts[i]
              THEN [a EXCEPT !.busMilliVolts[i] = bus, !.needsDisplay = TRUE]
              ELSE a
        v == ShuntToMilliAmps(shunt)
        a2 == IF v # a1.shuntMilliAmps[i]
              THEN [a1 EXCEPT !.shuntMilliAmps[i] = ToInt16(v), !.needsDisplay = TRUE]
              ELSE a1
    IN IF a2.shuntMilliAmps[i] > OverCurrentLimit(a2, i)
       THEN LET a3 == [a2 EXCEPT !.overCurrentCount[i] = ToUint8(@ + 1)]
            IN IF a2.overCurrentCount[i] > OverCurrentThreshold
               THEN setCurrentLimit(a3, i)
               ELSE a3
       ELSE [a2 EXCEPT !.overCurrentCount[i] = 0]

\* sensor = [bus |-> <reading of each INA219>, shunt |-> <reading of each INA219>]
updateCurrentSensor(a, sensor) ==
    SensorStep(SensorStep(a, 0, sensor.bus[0], sensor.shunt[0]),
               1, sensor.bus[1], sensor.shunt[1])

(* ------------------------------------------------------------------ *)
(* The menu table and the menu engine                                   *)
(* ------------------------------------------------------------------ *)

MenuOp(text, xeq, pause, buttons, goto) ==
    [show |-> text, xeq |-> xeq, pause |-> pause, buttons |-> buttons, goto |-> goto]

g_menuOps_Swapped(id) ==
    CASE id = Banner -> MenuOp("bannerString", "", TRUE, <<>>, 0)
      [] id = 0 -> MenuOp("", "display", FALSE, <<2, 1, 3>>, 0)
      [] id = 1 -> MenuOp("", "nextLine0", FALSE, <<>>, 0)
      [] id = 2 -> MenuOp("", "nextLine1", FALSE, <<>>, 0)
      [] id = 3 -> MenuOp("curLimit", "", FALSE, <<>>, 4)
      [] id = 4 -> MenuOp("", "curLimit0", FALSE, <<5, 6, 0>>, 0)
      [] id = 5 -> MenuOp("", "curLimit1", FALSE, <<4, 6, 0>>, 0)
      [] id = 6 -> MenuOp("", "adjustCurLimit", FALSE, <<7, 8, 9>>, 0)
      [] id = 7 -> MenuOp("", "incCurLimit", FALSE, <<>>, 6)
      [] id = 8 -> MenuOp("", "decCurLimit", FALSE, <<>>, 6)
      [] id = 9 -> MenuOp("accept", "showCurLimit", FALSE, <<10, 11, 11>>, 0)
      [] id = 10 -> MenuOp("accepted", "acceptCurLimit", TRUE, <<>>, 0)
      [] OTHER -> MenuOp("", "rejectCurLimit", FALSE, <<>>, 0)

\* the table with state 10 declaring no Pause before its Goto(0)
g_menuOps_NoAcceptPause(id) ==
    CASE id = Banner -> MenuOp("bannerString", "", TRUE, <<>>, 0)
      [] id = 0 -> MenuOp("", "display", FALSE, <<1, 2, 3>>, 0)
      [] id = 1 -> MenuOp("", "nextLine0", FALSE, <<>>, 0)
      [] id = 2 -> MenuOp("", "nextLine1", FALSE, <<>>, 0)
      [] id = 3 -> MenuOp("curLimit", "", FALSE, <<>>, 4)
      [] id = 4 -> MenuOp("", "curLimit0", FALSE, <<5, 6, 0>>, 0)
      [] id = 5 -> MenuOp("", "curLimit1", FALSE, <<4, 6, 0>>, 0)
      [] id = 6 -> MenuOp("", "adjustCurLimit", FALSE, <<7, 8, 9>>, 0)
      [] id = 7 -> MenuOp("", "incCurLimit", FALSE, <<>>, 6)
      [] id = 8 -> MenuOp("", "decCurLimit", FALSE, <<>>, 6)
      [] id = 9 -> MenuOp("accept", "showCurLimit", FALSE, <<10, 11, 11>>, 0)
      [] id = 10 -> MenuOp("accepted", "acceptCurLimit", FALSE, <<>>, 0)
      [] OTHER -> MenuOp("", "rejectCurLimit", FALSE, <<>>, 0)

\* the table with states 1 and 2 chained into the current-limit screens:
\* 1 -> Goto(2), 2 -> Goto(3), 3 -> Goto(4)
g_menuOps_LongChain(id) ==
    CASE id = Banner -> MenuOp("bannerString", "", TRUE, <<>>, 0)
      [] id = 0 -> MenuOp("", "display", FALSE, <<1, 2, 3>>, 0)
      [] id = 1 -> MenuOp("", "nextLine0", FALSE, <<>>, 2)
      [] id = 2 -> MenuOp("", "nextLine1", FALSE, <<>>, 3)
      [] id = 3 -> MenuOp("curLimit", "", FALSE, <<>>, 4)
      [] id = 4 -> MenuOp("", "curLimit0", FALSE, <<5, 6, 0>>, 0)
      [] id = 5 -> MenuOp("", "curLimit1", FALSE, <<4, 6, 0>>, 0)
      [] id = 6 -> MenuOp("", "adjustCurLimit", FALSE, <<7, 8, 9>>, 0)
      [] id = 7 -> MenuOp("", "incCurLimit", FALSE, <<>>, 6)
      [] id = 8 -> MenuOp("", "decCurLimit", FALSE, <<>>, 6)
      [] id = 9 -> MenuOp("accept", "showCurLimit", FALSE, <<10, 11, 11>>, 0)
      [] id = 10 -> MenuOp("accepted", "acceptCurLimit", TRUE, <<>>, 0)
      [] OTHER -> MenuOp("", "rejectCurLimit", FALSE, <<>>, 0)

\* the table with state 9 leading only to itself: Buttons 9, 9, 9
g_menuOps_DeadEnd(id) ==
    CASE id = Banner -> MenuOp("bannerString", "", TRUE, <<>>, 0)
      [] id = 0 -> MenuOp("", "display", FALSE, <<1, 2, 3>>, 0)
      [] id = 1 -> MenuOp("", "nextLine0", FALSE, <<>>, 0)
      [] id = 2 -> MenuOp("", "nextLine1", FALSE, <<>>, 0)
      [] id = 3 -> MenuOp("curLimit", "", FALSE, <<>>, 4)
      [] id = 4 -> MenuOp("", "curLimit0", FALSE, <<5, 6, 0>>, 0)
      [] id = 5 -> MenuOp("", "curLimit1", FALSE, <<4, 6, 0>>, 0)
      [] id = 6 -> MenuOp("", "adjustCurLimit", FALSE, <<7, 8, 9>>, 0)
      [] id = 7 -> MenuOp("", "incCurLimit", FALSE, <<>>, 6)
      [] id = 8 -> MenuOp("", "decCurLimit", FALSE, <<>>, 6)
      [] id = 9 -> MenuOp("accept", "showCurLimit", FALSE, <<9, 9, 9>>, 0)
      [] id = 10 -> MenuOp("accepted", "acceptCurLimit", TRUE, <<>>, 0)
      [] OTHER -> MenuOp("", "rejectCurLimit", FALSE, <<>>, 0)

\* g_menuOps, one record per State(id): Show, XEQ, Pause, Buttons, Goto
g_menuOps(id) ==
    CASE id = Banner -> MenuOp("bannerString", "", TRUE, <<>>, 0)
      [] id = 0 -> MenuOp("", "display", FALSE, <<1, 2, 3>>, 0)
      [] id = 1 -> MenuOp("", "nextLine0", FALSE, <<>>, 0)
      [] id = 2 -> MenuOp("", "nextLine1", FALSE, <<>>, 0)
      [] id = 3 -> MenuOp("curLimit", "", FALSE, <<>>, 4)
      [] id = 4 -> MenuOp("", "curLimit0", FALSE, <<5, 6, 0>>, 0)
      [] id = 5 -> MenuOp("", "curLimit1", FALSE, <<4, 6, 0>>, 0)
      [] id = 6 -> MenuOp("", "adjustCurLimit", FALSE, <<7, 8, 9>>, 0)
      [] id = 7 -> MenuOp("", "incCurLimit", FALSE, <<>>, 6)
      [] id = 8 -> MenuOp("", "decCurLimit", FALSE, <<>>, 6)
      [] id = 9 -> MenuOp("accept", "showCurLimit", FALSE, <<10, 11, 11>>, 0)
      [] id = 10 -> MenuOp("accepted", "acceptCurLimit", TRUE, <<>>, 0)
      [] OTHER -> MenuOp("", "rejectCurLimit", FALSE, <<>>, 0)

\* XEQ(f): the call through the table's function pointer
Xeq(a, f) ==
    CASE f = "display" -> display(a)
      [] f = "nextLine0" -> nextLine0(a)
      [] f = "nextLine1" -> nextLine1(a)
      [] f = "curLimit0" -> curLimit0(a)
      [] f = "curLimit1" -> curLimit1(a)
      [] f = "adjustCurLimit" -> adjustCurLimit(a)
      [] f = "showCurLimit" -> showCurLimit(a)
      [] f = "incCurLimit" -> incCurLimit(a)
      [] f = "decCurLimit" -> decCurLimit(a)
      [] f = "acceptCurLimit" -> acceptCurLimit(a)
      [] f = "rejectCurLimit" -> rejectCurLimit(a)
      [] OTHER -> a

\* Entering a state: its text, its action, then its pause, its button table
\* or its unconditional successor, followed in the same pass.
RECURSIVE MenuEnter(_, _)
MenuEnter(a, id) ==
    LET op == g_menuOps(id)
        a1 == [a EXCEPT !.menuState = id, !.menuPausing = FALSE]
        a2 == IF op.show # "" THEN show(a1, op.show) ELSE a1
        a3 == IF op.xeq # "" THEN Did(Xeq(a2, op.xeq), op.xeq) ELSE a2
    IN IF op.pause
       THEN [a3 EXCEPT !.menuPausing = TRUE]
       ELSE IF op.buttons # <<>>
            THEN a3
            ELSE MenuEnter(a3, op.goto)

\* Menu<MyApp>::handleEvent
MenuHandleEvent(a, type, param) ==
    IF type = "EV_BUTTON_DOWN"
    THEN IF ~a.menuPausing /\ g_menuOps(a.menuState).buttons # <<>>
         THEN MenuEnter(a, g_menuOps(a.menuState).buttons[ButtonIndex(param) + 1])
         ELSE a
    ELSE IF type = "EV_EVENT_TIMER" /\ param = "menuPause" /\ a.menuPausing
         THEN MenuEnter(a, g_menuOps(a.menuState).goto)
         ELSE a

(* ------------------------------------------------------------------ *)
(* MyApp::handleEvent                                                   *)
(* ------------------------------------------------------------------ *)

\* starting the next conversion without selecting the advanced channel
StartNextConversion_SameChannel(a) ==
    Did([a EXCEPT !.adcBusy = TRUE], "startConversion")

\* _adc.setChannel(_adcCurrentChannel); _adc.startConversion();
StartNextConversion(a) ==
    Did([a EXCEPT !.adcMux = a.adcCurrentChannel, !.adcBusy = TRUE], "startConversion")

IdlePoll(a, sensor) ==
    IF a.captureSensorValues
    THEN updateCurrentSensor(
             Did([a EXCEPT !.captureSensorValues = FALSE], "updateCurrentSensor"), sensor)
    ELSE a

\* the fold without the start of the next conversion
IdleFold_NoRestart(a) ==
    IF a.captureADCValue
    THEN updateADC(Did([a EXCEPT !.captureADCValue = FALSE], "updateADC"))
    ELSE a

IdleFold(a) ==
    IF a.captureADCValue
    THEN StartNextConversion(
             updateADC(Did([a EXCEPT !.captureADCValue = FALSE], "updateADC")))
    ELSE a

handleEvent_DisplayFirst(a0, type, param, sensor) ==
    LET a == MenuHandleEvent(
                 Did([a0 EXCEPT !.steps = <<type, param>>], "Menu::handleEvent"), type, param)
    IN CASE type = "EV_IDLE" -> IdleFold(IdlePoll(updateDisplay(a), sensor))
         [] type = "EV_ADC" -> [a EXCEPT !.captureADCValue = TRUE]
         [] type = "EV_EVENT_TIMER" ->
                IF param = "timerEvent"
                THEN [a EXCEPT !.captureSensorValues = TRUE]
                ELSE a
         [] OTHER -> a

handleEvent(a0, type, param, sensor) ==
    LET a == MenuHandleEvent(
                 Did([a0 EXCEPT !.steps = <<type, param>>], "Menu::handleEvent"), type, param)
    IN CASE type = "EV_IDLE" -> updateDisplay(IdleFold(IdlePoll(a, sensor)))
         [] type = "EV_ADC" -> [a EXCEPT !.captureADCValue = TRUE]
         [] type = "EV_EVENT_TIMER" ->
                IF param = "timerEvent"
                THEN [a EXCEPT !.captureSensorValues = TRUE]
                ELSE a
         [] OTHER -> a

(* ------------------------------------------------------------------ *)
(* MyErrorReporter                                                      *)
(* ------------------------------------------------------------------ *)

\* the hex digits toHex writes after "0x", most significant first
RECURSIVE HexPairs(_)
HexPairs(u) ==
    IF u = 0 THEN <<>> ELSE HexPairs(u \div 256) \o <<(u \div 16) % 16, u % 16>>

toHex(u) == IF u = 0 THEN <<0, 0>> ELSE HexPairs(u)

\* char buf[12]
ErrorBufSize == 12

\* where toHex starts: buf += 10
ToHexOffset == 10

\* the index buf is left at by while (u) { *--buf = ...; u >>= 4; *--buf = ...; u >>= 4; }
RECURSIVE toHexLoop(_, _)
toHexLoop(u, i) == IF u = 0 THEN i ELSE toHexLoop(u \div 256, i - 2)

\* the index of the pointer toHex returns, relative to the buffer it was given:
\* one write for the NUL, two per pair of digits, one for 'x', one for '0'
toHexReturn(u) ==
    LET nul == ToHexOffset - 1
        digits == IF u = 0 THEN nul - 2 ELSE toHexLoop(u, nul)
    IN digits - 2

\* the local buffer after toHex(buf, u): every write is a *--buf, so the
\* indices written are those from the returned one up to the NUL's
ErrorBuf(u) ==
    [p |-> toHexReturn(u),
     written |-> toHexReturn(u)..(ToHexOffset - 1),
     nul |-> ToHexOffset - 1,
     prefix |-> "0x",
     digits |-> toHex(u)]

\* no error reported yet
NoBuf == [p |-> 0, written |-> {}, nul |-> 0, prefix |-> "", digits |-> <<>>]

ErrorLabel(type) ==
    CASE type = "ErrorConditionNote" -> "Note:"
      [] type = "ErrorConditionWarning" -> "Warn:"
      [] OTHER -> "Fatl:"

\* the application after the report, and where control is
reportError_Returns(a, code, type) ==
    [app |-> [a EXCEPT !.lcd = [ClearedLcd EXCEPT ![0] =
                                   [kind |-> ErrorLabel(type), vals |-> toHex(code)]],
                       !.steps = <<"reportError", type>>],
     pc |-> "run"]

reportError(a, code, type) ==
    [app |-> [a EXCEPT !.lcd = [ClearedLcd EXCEPT ![0] =
                                   [kind |-> ErrorLabel(type), vals |-> toHex(code)]],
                       !.steps = <<"reportError", type>>],
     pc |-> IF type = "ErrorConditionFatal" THEN "halt" ELSE "run"]

\* What a call of reportError can do.  A write of toHex below buf[0] lands
\* outside the array, in the stack frame: the build may go on as if nothing
\* happened, or control is lost after the label has been printed.
reportErrorOutcomes(a, code, type) ==
    IF toHexReturn(code) >= 0
    THEN {reportError(a, code, type)}
    ELSE {reportError(a, code, type),
          [app |-> [a EXCEPT !.lcd = [ClearedLcd EXCEPT ![0] = TextLine(ErrorLabel(type))],
                             !.steps = <<"reportError", type>>],
           pc |-> "undefined"]}

(* ------------------------------------------------------------------ *)
(* Initial state: the global g_app after MyApp::MyApp(), the menu in    *)
(* the table's prelude (banner shown, its pause pending)                *)
(* ------------------------------------------------------------------ *)

Init ==
    /\ pc = "run"
    /\ errorBuf = NoBuf
    /\ menuState = Banner
    /\ menuPausing = TRUE
    /\ displayEnabled = FALSE
    /\ needsDisplay = TRUE
    /\ lcd = [ClearedLcd EXCEPT ![0] = TextLine("bannerString")]
    /\ shutdownA = FALSE
    /\ shutdownB = FALSE
    /\ statusLED = FALSE
    /\ busMilliVolts = [i \in Supplies |-> 0]
    /\ shuntMilliAmps = [i \in Supplies |-> 0]
    /\ captureSensorValues = TRUE
    /\ captureADCValue = FALSE
    /\ adcAccumulator = [c \in Channels |-> 0]
    /\ adcVoltage = [c \in Channels |-> 0]
    /\ adcCurrentChannel = 0
    /\ adcCurrentSamples = 0
    /\ adcMux = 0
    /\ adcBusy = TRUE
    /\ adcResult = 0
    /\ currentLimitIndex = [i \in Supplies |-> numCurLimitValues - 1]
    /\ currentLimitAdjustIndex = [i \in Supplies |-> numCurLimitValues - 1]
    /\ currentLimitAdjustSupply = 0
    /\ overCurrentCount = [i \in Supplies |-> 0]
    /\ lineDisplayMode = [i \in 0..1 |-> IF i = 0 THEN PS1VA ELSE PS2VA]
    /\ steps = <<>>
    /\ overPolls = [i \in Supplies |-> 0]
    /\ sensorRead = [bus |-> [i \in Supplies |-> 0], shunt |-> [i \in Supplies |-> 0]]
    /\ adcSum = [c \in Channels |-> 0]
    /\ adcCount = [c \in Channels |-> 0]
    /\ adcWindow = [c \in Channels |-> 0]
    /\ redrawCause = "none"
    /\ everDrawn = FALSE
    /\ changedSinceDraw = FALSE
    /\ fatalReported = FALSE
    /\ presses = 0
    /\ conversions = 0
    /\ errors = 0

(* ------------------------------------------------------------------ *)
(* History of the display, kept by every event                          *)
(* ------------------------------------------------------------------ *)

ValuesChanged(a, r) ==
    \/ r.busMilliVolts # a.busMilliVolts
    \/ r.shuntMilliAmps # a.shuntMilliAmps
    \/ r.adcVoltage # a.adcVoltage
    \/ r.lineDisplayMode # a.lineDisplayMode

DisplayHistory(a, r) ==
    LET redrew == Ran(r.steps, "redraw")
    IN /\ redrawCause' = IF ~redrew THEN "none"
                         ELSE IF ~everDrawn THEN "first"
                         ELSE IF changedSinceDraw \/ ValuesChanged(a, r) THEN "change"
                         ELSE "nochange"
       /\ everDrawn' = (everDrawn \/ redrew)
       /\ changedSinceDraw' = IF redrew THEN FALSE
                              ELSE (changedSinceDraw \/ ValuesChanged(a, r))

\* the reading of supply i is over its limit: the shunt current, in tenths of
\* a milliamp, exceeds ten times the limit in milliamps
ReadingOverLimit(i, shunt) ==
    ShuntToMilliAmps(shunt) > 10 * (10 * curLimitValues(currentLimitIndex[i]))

NoSensor == [bus |-> [i \in Supplies |-> 0], shunt |-> [i \in Supplies |-> 0]]

(* ------------------------------------------------------------------ *)
(* Events                                                               *)
(* ------------------------------------------------------------------ *)

\* EV_IDLE, no sensor poll due
IdleNoPoll ==
    /\ pc = "run"
    /\ ~captureSensorValues
    /\ LET r == handleEvent(App, "EV_IDLE", "", NoSensor)
       IN /\ Commit(r)
          /\ DisplayHistory(App, r)
    /\ UNCHANGED <<pc, errorBuf, overPolls, sensorRead, adcSum, adcCount, adcWindow, fatalReported,
                   presses, conversions, errors>>

\* EV_IDLE with a sensor poll due: the INA219s return bus and shunt readings
IdlePolling(busReadings, shuntReadings) ==
    /\ pc = "run"
    /\ captureSensorValues
    /\ \E bus \in [Supplies -> busReadings], shunt \in [Supplies -> shuntReadings] :
          /\ \A i \in Supplies :
                ReadingOverLimit(i, shunt[i]) => overCurrentCount[i] < MaxOverCount
          /\ LET r == handleEvent(App, "EV_IDLE", "", [bus |-> bus, shunt |-> shunt])
             IN /\ Commit(r)
                /\ DisplayHistory(App, r)
          /\ overPolls' = [i \in Supplies |->
                             IF ReadingOverLimit(i, shunt[i]) THEN overPolls[i] + 1 ELSE 0]
          /\ sensorRead' = [bus |-> bus, shunt |-> shunt]
    /\ UNCHANGED <<pc, errorBuf, adcSum, adcCount, adcWindow, fatalReported,
                   presses, conversions, errors>>

\* EV_EVENT_TIMER of the application's repeating 100 ms timer
PeriodicTick ==
    /\ pc = "run"
    /\ LET r == handleEvent(App, "EV_EVENT_TIMER", "timerEvent", NoSensor)
       IN /\ Commit(r)
          /\ DisplayHistory(App, r)
    /\ UNCHANGED <<pc, errorBuf, overPolls, sensorRead, adcSum, adcCount, adcWindow, fatalReported,
                   presses, conversions, errors>>

\* EV_EVENT_TIMER of the menu's pause
PauseExpired ==
    /\ pc = "run"
    /\ menuPausing
    /\ LET r == handleEvent(App, "EV_EVENT_TIMER", "menuPause", NoSensor)
       IN /\ Commit(r)
          /\ DisplayHistory(App, r)
    /\ UNCHANGED <<pc, errorBuf, overPolls, sensorRead, adcSum, adcCount, adcWindow, fatalReported,
                   presses, conversions, errors>>

\* the conversion in flight completes with the 10-bit sample v: EV_ADC
ConversionEffect(v) ==
    /\ pc = "run"
    /\ adcBusy
    /\ LET r == handleEvent([App EXCEPT !.adcBusy = FALSE, !.adcResult = v],
                            "EV_ADC", "", NoSensor)
       IN /\ Commit(r)
          /\ DisplayHistory(App, r)
    /\ LET sum == [adcSum EXCEPT ![adcMux] = @ + v]
           cnt == [adcCount EXCEPT ![adcMux] = @ + 1]
       IN IF \A c \in Channels : cnt[c] = ADCAverageCount
          THEN /\ adcWindow' = sum
               /\ adcSum' = [c \in Channels |-> 0]
               /\ adcCount' = [c \in Channels |-> 0]
          ELSE /\ adcSum' = sum
               /\ adcCount' = cnt
               /\ UNCHANGED adcWindow
    /\ UNCHANGED <<pc, errorBuf, overPolls, sensorRead, fatalReported, presses, errors>>

\* the same, counted, in a run of at most limit conversions
ConversionCompleteWith(v, limit) ==
    /\ conversions < limit
    /\ ConversionEffect(v)
    /\ conversions' = conversions + 1

ConversionComplete(samples, limit) ==
    \E v \in samples : ConversionCompleteWith(v, limit)

\* the same, with a signal on one analog input at a time: within a window a
\* nonzero sample arrives only on a channel whose neighbours have read 0
ConversionOnLiveInput(samples, limit) ==
    \E v \in samples :
        /\ v # 0 => \A c \in Channels \ {adcMux} : adcSum[c] = 0
        /\ ConversionCompleteWith(v, limit)

ButtonDown(limit) ==
    /\ pc = "run"
    /\ presses < limit
    /\ \E b \in Buttons :
          LET r == handleEvent(App, "EV_BUTTON_DOWN", b, NoSensor)
          IN /\ Commit(r)
             /\ DisplayHistory(App, r)
    /\ presses' = presses + 1
    /\ UNCHANGED <<pc, errorBuf, overPolls, sensorRead, adcSum, adcCount, adcWindow, fatalReported,
                   conversions, errors>>

ButtonUp ==
    /\ pc = "run"
    /\ \E b \in Buttons :
          LET r == handleEvent(App, "EV_BUTTON_UP", b, NoSensor)
          IN /\ Commit(r)
             /\ DisplayHistory(App, r)
    /\ UNCHANGED <<pc, errorBuf, overPolls, sensorRead, adcSum, adcCount, adcWindow, fatalReported,
                   presses, conversions, errors>>

\* the library reports an error condition
ReportError(codes) ==
    /\ pc = "run"
    /\ errors < MaxErrors
    /\ \E type \in {"ErrorConditionNote", "ErrorConditionWarning", "ErrorConditionFatal"},
          code \in codes :
          \E r \in reportErrorOutcomes(App, code, type) :
             /\ Commit(r.app)
             /\ DisplayHistory(App, r.app)
             /\ pc' = r.pc
             /\ errorBuf' = ErrorBuf(code)
             /\ fatalReported' = (fatalReported \/ type = "ErrorConditionFatal")
    /\ errors' = errors + 1
    /\ UNCHANGED <<overPolls, sensorRead, adcSum, adcCount, adcWindow, presses, conversions>>

(* ------------------------------------------------------------------ *)
(* Specifications                                                       *)
(* ------------------------------------------------------------------ *)

BusReadings == {5000}
ShuntReadings == {-5, 334}
ErrorCodes == {419}

Next ==
    \/ IdleNoPoll
    \/ IdlePolling(BusReadings, ShuntReadings)
    \/ PeriodicTick
    \/ PauseExpired
    \/ ConversionComplete({1023}, MaxConversions)
    \/ ButtonDown(MaxSpecPresses)
    \/ ButtonUp
    \/ ReportError(ErrorCodes)

Spec == Init /\ [][Next]_vars

\* the sampling and current-limiting engine with the menu that sets and
\* resets the limits
NextSense ==
    \/ IdleNoPoll
    \/ IdlePolling(BusReadings, ShuntReadings)
    \/ PeriodicTick
    \/ PauseExpired
    \/ ConversionComplete({1023}, MaxSenseConversions)
    \/ ButtonDown(MaxPresses)

SpecSense == Init /\ [][NextSense]_vars

\* the menu, driven by the buttons, with steady sensor readings
NextMenu ==
    \/ IdleNoPoll
    \/ IdlePolling(BusReadings, {0})
    \/ PeriodicTick
    \/ PauseExpired
    \/ ButtonDown(MaxMenuPresses)
    \/ ButtonUp

SpecMenu == Init /\ [][NextMenu]_vars

\* the ADC averaging, with varying samples
AdcSamples == {0, 1, 1023}

NextADC ==
    \/ IdleNoPoll
    \/ IdlePolling(BusReadings, {0})
    \/ PeriodicTick
    \/ PauseExpired
    \/ ConversionOnLiveInput(AdcSamples, MaxAdcConversions)

SpecADC == Init /\ [][NextADC]_vars

(* ------------------------------------------------------------------ *)
(* Properties                                                           *)
(* ------------------------------------------------------------------ *)

Shutdown(i) == IF i = 0 THEN shutdownA ELSE shutdownB

\* the last event handled was an idle pass that polled the current sensors
Polled == Len(steps) > 0 /\ steps[1] = "EV_IDLE" /\ Ran(steps, "updateCurrentSensor")

\* the last event handled was an idle pass that folded an ADC sample
Folded == Len(steps) > 0 /\ steps[1] = "EV_IDLE" /\ Ran(steps, "updateADC")

Redrew == Len(steps) > 0 /\ Ran(steps, "redraw")

\* one of the four callbacks that go through showCurrentLimit ran
ShowCurrentLimitRan ==
    \/ Ran(steps, "curLimit0") \/ Ran(steps, "curLimit1")
    \/ Ran(steps, "adjustCurLimit") \/ Ran(steps, "showCurLimit")

\* C1 (as claimed): a sensor poll that is the N-th consecutive over-limit poll
\* of a supply, counted from a counter of zero, does not assert that supply's
\* shutdown line for N <= 3 and has it asserted for N = 4.
C1_ShutdownAtFourthOverLimitPoll ==
    [][Polled' =>
         \A i \in Supplies :
            /\ (overPolls'[i] \in 1..3 /\ ~Shutdown(i)) => ~Shutdown(i)'
            /\ overPolls'[i] = 4 => Shutdown(i)']_vars

\* C2: a shutdown line goes from asserted to de-asserted only in a step in
\* which a button event made the menu enter state 4, 5, 6 or 9 and run that
\* state's callback through showCurrentLimit; whenever such a callback runs,
\* both lines are de-asserted.  No poll, fold, tick, idle pass, redraw or
\* pause expiry de-asserts a line.
C2_ShutdownLatchedUntilReset ==
    [][/\ \A i \in Supplies :
             (Shutdown(i) /\ ~Shutdown(i)') =>
                 /\ steps'[1] = "EV_BUTTON_DOWN"
                 /\ ShowCurrentLimitRan'
                 /\ menuState' \in {4, 5, 6, 9}
       /\ (steps' # steps /\ ShowCurrentLimitRan') =>
             (menuState' \in {4, 5, 6, 9} /\ ~shutdownA' /\ ~shutdownB')]_vars

\* C2 witness: supply A is shut down and the poll just taken read it in-limit
C2_LatchedAfterInLimitPoll ==
    Polled /\ shutdownA /\ overPolls[0] = 0 /\ overCurrentCount[0] = 0

\* the value the claim gives for a window of samples summing to S
ClaimedAverage(S) == (((S + 8) \div 16) * 5000) \div 1024

\* the fold just made completed a window of 16 samples on every channel
WindowJustFolded == Folded /\ \A c \in Channels : adcCount[c] = 0

\* C3: when the fold that completes a window of 16 samples per channel has
\* run, every channel's averaged voltage is ((S + 8) div 16) * 5000 div 1024
\* for the sum S of its 16 samples and its accumulator is zero; no
\* accumulator ever exceeds 16 * 1023, so none wraps at 16 bits.
C3_AveragedVoltage ==
    /\ WindowJustFolded =>
          \A c \in Channels :
             /\ adcVoltage[c] = ClaimedAverage(adcWindow[c])
             /\ adcAccumulator[c] = 0
    /\ \A c \in Channels : adcAccumulator[c] <= ADCAverageCount * 1023

\* C3 witness: a window was folded whose sum on channel 2 is rounded up by
\* the + 8 and gives a nonzero voltage
C3_WindowWithRoundedSum ==
    WindowJustFolded /\ adcWindow[2] % 16 = 8 /\ adcWindow[2] > 1023 /\ adcVoltage[2] > 0

\* a button-down event was just handled and its handling ran callback f
ButtonRan(f) == Len(steps) > 0 /\ steps[1] = "EV_BUTTON_DOWN" /\ Ran(steps, f)

LimitIndexRange == 0..(numCurLimitValues - 1)

\* C4: a step in which incCurLimit (decCurLimit) runs changes, of the limit
\* settings, only the pending index of the selected supply, to (index + 1)
\* mod 8 (to (index + 7) mod 8); after every step all four indices are in
\* 0..7; in every state reached, eight increments, and an increment followed
\* by a decrement, give back the pending indices.
C4_LimitAdjustWraps ==
    [][/\ \A i \in Supplies :
             /\ currentLimitIndex'[i] \in LimitIndexRange
             /\ currentLimitAdjustIndex'[i] \in LimitIndexRange
       /\ (steps' # steps /\ ButtonRan("incCurLimit")') =>
             /\ currentLimitAdjustIndex' =
                   [currentLimitAdjustIndex EXCEPT ![currentLimitAdjustSupply] =
                       (@ + 1) % numCurLimitValues]
             /\ UNCHANGED <<currentLimitIndex, currentLimitAdjustSupply>>
       /\ (steps' # steps /\ ButtonRan("decCurLimit")') =>
             /\ currentLimitAdjustIndex' =
                   [currentLimitAdjustIndex EXCEPT ![currentLimitAdjustSupply] =
                       (@ + numCurLimitValues - 1) % numCurLimitValues]
             /\ UNCHANGED <<currentLimitIndex, currentLimitAdjustSupply>>
       /\ \A i \in Supplies :
             LET x == currentLimitAdjustIndex'[i]
                 x4 == IncLimitIndex(IncLimitIndex(IncLimitIndex(IncLimitIndex(x))))
             IN /\ IncLimitIndex(IncLimitIndex(IncLimitIndex(IncLimitIndex(x4)))) = x
                /\ DecLimitIndex(IncLimitIndex(x)) = x]_vars

\* C4 witness: a decrement has just wrapped the pending index of supply B
\* from 0 to 7, after an increment had wrapped it from 7 to 0
C4_DecrementWrapped ==
    /\ ButtonRan("decCurLimit")
    /\ currentLimitAdjustSupply = 1
    /\ currentLimitAdjustIndex[1] = 7
    /\ presses = 5

\* C5: a committed index changes only in a step that runs acceptCurLimit and
\* leaves the menu in state 10; that step sets committed := pending for both
\* supplies and keeps pending; a step that runs rejectCurLimit sets
\* pending := committed for both supplies, keeps committed and leaves the
\* menu in state 0.
C5_CommitOnlyOnAccept ==
    [][/\ currentLimitIndex' # currentLimitIndex =>
             (ButtonRan("acceptCurLimit")' /\ menuState' = 10)
       /\ (steps' # steps /\ ButtonRan("acceptCurLimit")') =>
             /\ currentLimitIndex' = currentLimitAdjustIndex
             /\ currentLimitAdjustIndex' = currentLimitAdjustIndex
             /\ menuState' = 10
       /\ (steps' # steps /\ ButtonRan("rejectCurLimit")') =>
             /\ currentLimitAdjustIndex' = currentLimitIndex
             /\ currentLimitIndex' = currentLimitIndex
             /\ menuState' = 0]_vars

\* C5 witness: a reject has just run after an earlier accept had committed a
\* new limit for supply A
C5_RejectAfterAccept ==
    ButtonRan("rejectCurLimit") /\ currentLimitIndex[0] = 0 /\ currentLimitAdjustIndex[0] = 0

\* C6: with the menu resting in state 0, a down-edge of button 0 runs exactly
\* nextLine0 then display and leaves the menu resting in state 0, and a
\* down-edge of button 1 runs exactly nextLine1 then display and leaves it
\* resting in state 0.
C6_MenuRoundTrip ==
    [][(menuState = 0 /\ ~menuPausing /\ steps'[1] = "EV_BUTTON_DOWN"
          /\ presses' = presses + 1) =>
         /\ steps'[2] = "Switch0" =>
               /\ steps' = <<"EV_BUTTON_DOWN", "Switch0", "Menu::handleEvent",
                             "nextLine0", "display">>
               /\ menuState' = 0 /\ ~menuPausing'
         /\ steps'[2] = "Switch1" =>
               /\ steps' = <<"EV_BUTTON_DOWN", "Switch1", "Menu::handleEvent",
                             "nextLine1", "display">>
               /\ menuState' = 0 /\ ~menuPausing']_vars

\* C6 witness: button 0 then button 1 have been pressed from state 0; each
\* line's mode has advanced once and the menu rests in state 0
C6_BothLinesAdvanced ==
    /\ steps = <<"EV_BUTTON_DOWN", "Switch1", "Menu::handleEvent", "nextLine1", "display">>
    /\ presses = 2
    /\ lineDisplayMode[0] = PS2VA /\ lineDisplayMode[1] = PS12A
    /\ menuState = 0 /\ ~menuPausing /\ displayEnabled

\* C7: every redraw after the first follows a change of a stored reading, an
\* averaged voltage or a line's mode since the redraw before it (so polls
\* that return unchanged readings cause none), and the dirty flag is clear
\* right after every redraw.
C7_NoRedundantRedraw ==
    /\ redrawCause # "nochange"
    /\ Redrew => (~needsDisplay /\ redrawCause \in {"first", "change"})
    /\ ~Redrew => redrawCause = "none"

\* C7 witness: with the live readings on screen, a poll returned the stored
\* readings again and the idle pass did not redraw
C7_UnchangedPollNoRedraw ==
    /\ Polled /\ ~Redrew
    /\ displayEnabled /\ everDrawn /\ ~changedSinceDraw /\ ~needsDisplay
    /\ lcd = [i \in 0..1 |-> RenderLine(App, i)]

\* C8 (as claimed): when an idle pass has completed with the passive display
\* enabled, the screen shows what the current values and modes render.
C8_NoStaleDisplay ==
    (Len(steps) > 0 /\ steps[1] = "EV_IDLE" /\ displayEnabled) =>
        lcd = [i \in 0..1 |-> RenderLine(App, i)]

\* position of a call in the last handler's log, 0 if it was not made
CallPos(what) ==
    IF Ran(steps, what)
    THEN CHOOSE k \in 1..Len(steps) : steps[k] = what /\ \A j \in 1..(k - 1) : steps[j] # what
    ELSE 0

CallCount(what) == Cardinality({k \in 1..Len(steps) : steps[k] = what})

\* the calls of the last handler are made at most once and in this order
CallsInOrder(order) ==
    /\ \A k \in 1..Len(order) : CallCount(order[k]) <= 1
    /\ \A j, k \in 1..Len(order) :
          (j < k /\ Ran(steps, order[j]) /\ Ran(steps, order[k])) =>
              CallPos(order[j]) < CallPos(order[k])

C10_FatalHaltsOthersResume ==
    [][/\ ~fatalReported
       /\ errors' # errors =>
             /\ UNCHANGED <<menuState, menuPausing, displayEnabled, needsDisplay,
                            shutdownA, shutdownB, statusLED, busMilliVolts,
                            shuntMilliAmps, captureSensorValues, captureADCValue,
                            adcAccumulator, adcVoltage, adcCurrentChannel,
                            adcCurrentSamples, adcMux, adcBusy, adcResult,
                            currentLimitIndex, currentLimitAdjustIndex,
                            currentLimitAdjustSupply, overCurrentCount,
                            lineDisplayMode>>
             /\ pc' = (IF fatalReported' THEN "halt" ELSE "run")]_vars

\* C10 witness: after a Warning was reported an idle pass polled the sensors
\* and redrew the live readings
C10_ResumedAfterWarning ==
    /\ errors = 1 /\ ~fatalReported /\ pc = "run"
    /\ Polled /\ Redrew /\ lcd[0].kind = "PSVA"

\* the last event handled was a button event (down or up)
ButtonEvent == Len(steps) > 0 /\ steps[1] \in {"EV_BUTTON_DOWN", "EV_BUTTON_UP"}

\* the last event handled was the expiry of the menu's pause
PauseExpiry == Len(steps) > 1 /\ steps[1] = "EV_EVENT_TIMER" /\ steps[2] = "menuPause"

\* C11: the table's two pauses are pending where it declares them: a pause is
\* pending exactly in the banner and in state 10, and the step that runs
\* acceptCurLimit leaves the menu pausing in state 10.  While a pause is
\* pending a button-down or button-up event leaves the menu state, the pause
\* and the application unchanged and runs no callback; the expiry of the
\* pause takes the menu to state 0, resting, and runs exactly display, once.
C11_PauseWins ==
    [][/\ menuPausing' <=> menuState' \in {Banner, 10}
       /\ (steps' # steps /\ ButtonRan("acceptCurLimit")') =>
             (menuState' = 10 /\ menuPausing')
       /\ (menuPausing /\ steps' # steps /\ ButtonEvent') =>
             /\ steps' = <<steps'[1], steps'[2], "Menu::handleEvent">>
             /\ UNCHANGED <<pc, appVars>>
       /\ (menuPausing /\ steps' # steps /\ PauseExpiry') =>
             /\ steps' = <<"EV_EVENT_TIMER", "menuPause", "Menu::handleEvent", "display">>
             /\ menuState' = 0 /\ ~menuPausing' /\ displayEnabled']_vars

\* C11 witness: a button was pressed during the pause of state 10, after the
\* new limit of supply A had been accepted, and the menu is still pausing there
C11_PressIgnoredInState10 ==
    /\ steps = <<"EV_BUTTON_DOWN", "Switch0", "Menu::handleEvent">>
    /\ menuState = 10 /\ menuPausing
    /\ currentLimitIndex[0] = 0

(* ------------------------------------------------------------------ *)
(* The overcurrent comparison, over every limit setting                 *)
(* ------------------------------------------------------------------ *)

\* the program variables have the values of the application object a
StateIs(a) ==
    /\ menuState = a.menuState
    /\ menuPausing = a.menuPausing
    /\ displayEnabled = a.displayEnabled
    /\ needsDisplay = a.needsDisplay
    /\ lcd = a.lcd
    /\ shutdownA = a.shutdownA
    /\ shutdownB = a.shutdownB
    /\ statusLED = a.statusLED
    /\ busMilliVolts = a.busMilliVolts
    /\ shuntMilliAmps = a.shuntMilliAmps
    /\ captureSensorValues = a.captureSensorValues
    /\ captureADCValue = a.captureADCValue
    /\ adcAccumulator = a.adcAccumulator
    /\ adcVoltage = a.adcVoltage
    /\ adcCurrentChannel = a.adcCurrentChannel
    /\ adcCurrentSamples = a.adcCurrentSamples
    /\ adcMux = a.adcMux
    /\ adcBusy = a.adcBusy
    /\ adcResult = a.adcResult
    /\ currentLimitIndex = a.currentLimitIndex
    /\ currentLimitAdjustIndex = a.currentLimitAdjustIndex
    /\ currentLimitAdjustSupply = a.currentLimitAdjustSupply
    /\ overCurrentCount = a.overCurrentCount
    /\ lineDisplayMode = a.lineDisplayMode
    /\ steps = a.steps

\* g_app after construction, before any event
Constructed ==
    [ menuState |-> Banner, menuPausing |-> TRUE,
      displayEnabled |-> FALSE, needsDisplay |-> TRUE,
      lcd |-> [ClearedLcd EXCEPT ![0] = TextLine("bannerString")],
      shutdownA |-> FALSE, shutdownB |-> FALSE, statusLED |-> FALSE,
      busMilliVolts |-> [i \in Supplies |-> 0], shuntMilliAmps |-> [i \in Supplies |-> 0],
      captureSensorValues |-> TRUE, captureADCValue |-> FALSE,
      adcAccumulator |-> [c \in Channels |-> 0], adcVoltage |-> [c \in Channels |-> 0],
      adcCurrentChannel |-> 0, adcCurrentSamples |-> 0,
      adcMux |-> 0, adcBusy |-> TRUE, adcResult |-> 0,
      currentLimitIndex |-> [i \in Supplies |-> numCurLimitValues - 1],
      currentLimitAdjustIndex |-> [i \in Supplies |-> numCurLimitValues - 1],
      currentLimitAdjustSupply |-> 0,
      overCurrentCount |-> [i \in Supplies |-> 0],
      lineDisplayMode |-> [i \in 0..1 |-> IF i = 0 THEN PS1VA ELSE PS2VA],
      steps |-> <<>> ]

\* The menu rests in state 6 (adjusting the limit of the selected supply)
\* before the first sensor poll: the committed indices are whatever earlier
\* adjustments accepted, the pending index of the selected supply is
\* whatever the inc/dec presses made it, the other supply's is its committed.
InitLimit ==
    /\ pc = "run"
    /\ errorBuf = NoBuf
    /\ \E committed \in [Supplies -> 0..(numCurLimitValues - 1)],
          supply \in Supplies, pending \in 0..(numCurLimitValues - 1) :
          StateIs(adjustCurLimit(
              [Constructed EXCEPT
                  !.menuState = 6, !.menuPausing = FALSE,
                  !.lcd = [ClearedLcd EXCEPT ![0] = TextLine("curLimit")],
                  !.currentLimitIndex = committed,
                  !.currentLimitAdjustIndex = [committed EXCEPT ![supply] = pending],
                  !.currentLimitAdjustSupply = supply]))
    /\ overPolls = [i \in Supplies |-> 0]
    /\ sensorRead = NoSensor
    /\ adcSum = [c \in Channels |-> 0]
    /\ adcCount = [c \in Channels |-> 0]
    /\ adcWindow = [c \in Channels |-> 0]
    /\ redrawCause = "none"
    /\ everDrawn = FALSE
    /\ changedSinceDraw = FALSE
    /\ fatalReported = FALSE
    /\ presses = 0
    /\ conversions = 0
    /\ errors = 0

\* shunt readings that the transform takes to each limit's threshold and to
\* one above it (100, 101, 500, 501, ... 8000, 8001), a negative reading and
\* the largest 16-bit reading (9929, below the threshold 10000 of entry 100)
LimitShuntReadings ==
    {-5, 329, 332, 1649, 1652, 3299, 3302, 6599, 6602,
     13199, 13202, 19799, 19802, 26399, 26402, 32767}

NextLimit == IdlePolling(BusReadings, LimitShuntReadings)

SpecLimit == InitLimit /\ [][NextLimit]_vars

\* C12: in a sensor poll the counter of a supply is incremented exactly when
\* the shunt current just stored (tenths of a milliamp) is strictly greater
\* than ten times the limit in milliamps, the limit in milliamps being ten
\* times the table entry at the committed index, and is zeroed otherwise;
\* the value the code compares against is that product exactly (no 16-bit
\* wrap) whatever the committed and pending indices are.
C12_OverLimitAboveTenTimesCommitted ==
    [][(steps' # steps /\ Polled') =>
         \A i \in Supplies :
            LET limitMa == curLimitValues(currentLimitIndex[i]) * 10
            IN /\ OverCurrentLimit(App, i) = 10 * limitMa
               /\ overCurrentCount'[i] =
                     IF shuntMilliAmps'[i] > 10 * limitMa
                     THEN overCurrentCount[i] + 1
                     ELSE 0
               /\ currentLimitIndex'[i] = currentLimitIndex[i]]_vars

\* C12 witness: supply A, committed limit 20 (threshold 2000) while the
\* pending limit is 10 (threshold 1000), read exactly 2000 and was not
\* counted; supply B, committed limit 5, read 501 and was counted
C12_AtThresholdNotCounted ==
    /\ Polled
    /\ currentLimitIndex[0] = 3 /\ currentLimitAdjustIndex[0] = 2
    /\ shuntMilliAmps[0] = 2000 /\ overCurrentCount[0] = 0
    /\ currentLimitIndex[1] = 1
    /\ shuntMilliAmps[1] = 501 /\ overCurrentCount[1] = 1

(* ------------------------------------------------------------------ *)
(* The menu table as a graph                                            *)
(* ------------------------------------------------------------------ *)

\* the states the table declares, and those with its prelude
MenuStates == 0..11
MenuEntries == MenuStates \cup {Banner}

\* the state waits for a button or for its pause
Waits(id) == g_menuOps(id).pause \/ g_menuOps(id).buttons # <<>>

\* the state reached from id by following Goto entries, at most n of them,
\* stopping at a state that waits
RECURSIVE GotoSteps(_, _)
GotoSteps(id, n) ==
    IF n = 0 \/ Waits(id) THEN id ELSE GotoSteps(g_menuOps(id).goto, n - 1)

\* C13: from every entry of the table at most 2 Goto transitions lead to a
\* state that waits for a button or a pause; so in every reachable state the
\* menu is in a state that waits, and one button event or pause expiry has
\* entered at most three states (run at most three callbacks).
C13_GotoChainsTerminate ==
    /\ \A id \in MenuEntries : Waits(GotoSteps(id, 2))
    /\ Waits(menuState)
    /\ (ButtonEvent \/ PauseExpiry) => Len(steps) <= 3 + 3

\* C13 witness: a button event that was processed through a Goto: state 7
\* (incCurLimit) then its successor state 6 (adjustCurLimit), where the menu
\* waits; it was the second increment of supply A's pending index
C13_IncThenAdjustInOnePass ==
    /\ steps = <<"EV_BUTTON_DOWN", "Switch0", "Menu::handleEvent",
                 "incCurLimit", "adjustCurLimit">>
    /\ menuState = 6 /\ ~menuPausing
    /\ currentLimitAdjustSupply = 0 /\ currentLimitAdjustIndex[0] = 1

\* the states an entry of the table can hand over to: the three of its
\* Buttons if it has them, else its Goto (taken at once, or after its Pause)
Targets(id) ==
    IF g_menuOps(id).buttons # <<>>
    THEN {g_menuOps(id).buttons[k] : k \in 1..Len(g_menuOps(id).buttons)}
    ELSE {g_menuOps(id).goto}

\* the states reached from those of S by at most n transitions
RECURSIVE ReachIn(_, _)
ReachIn(S, n) ==
    IF n = 0 THEN S ELSE ReachIn(UNION {{id} \cup Targets(id) : id \in S}, n - 1)

\* every state that can be reached from those of S
Reachable(S) == ReachIn(S, Cardinality(MenuEntries))

\* the table's graph: the banner leads to state 0, every target is a declared
\* state, every declared state is reached from state 0, and state 0 is
\* reached again from every entry
MenuTableIsCyclic ==
    /\ Targets(Banner) = {0}
    /\ \A id \in MenuEntries : Targets(id) \subseteq MenuStates
    /\ MenuStates \subseteq Reachable({0})
    /\ \A id \in MenuEntries : 0 \in Reachable(Targets(id))

\* C14: the banner's successor is state 0; every transition target of the
\* table is one of the declared states 0..11; every state 0..11 can be
\* reached from state 0; from every entry of the table state 0 can be
\* reached again; and the current state of the menu is always one entry of
\* the table, in which the menu waits.
C14_NoTerminalMenuState ==
    /\ MenuTableIsCyclic
    /\ menuState \in {id \in MenuEntries : Waits(id)}

\* C14 witness: the menu is back in state 0 through the reject state 11,
\* after an earlier round through the accept state 10 had committed a
\* decremented limit for supply B
C14_BackAtZeroAfterBothRounds ==
    /\ menuState = 0 /\ ~menuPausing
    /\ steps = <<"EV_BUTTON_DOWN", "Switch1", "Menu::handleEvent",
                 "rejectCurLimit", "display">>
    /\ currentLimitIndex[1] = 6

\* C15 (as claimed): while a supply stays shut down its counter does not
\* change, and the step that clears the shutdown zeroes the counter.
C15_CounterHeldWhileLatched ==
    [][\A i \in Supplies :
          /\ (Shutdown(i) /\ Shutdown(i)') => overCurrentCount'[i] = overCurrentCount[i]
          /\ (Shutdown(i) /\ ~Shutdown(i)') => overCurrentCount'[i] = 0]_vars

\* C15 (amended): the shutdown does not hold the counter.  Every sensor
\* poll, of a supply shut down or not, zeroes the supply's counter on an
\* in-limit reading and increments it on an over-limit reading; no other
\* step changes a counter, and the step that runs the explicit reset
\* (through showCurrentLimit) clears the shutdown lines and leaves both
\* counters as they were.
C15_CounterFollowsReadingsOnly ==
    [][/\ (steps' # steps /\ Polled') =>
             \A i \in Supplies :
                overCurrentCount'[i] =
                    IF shuntMilliAmps'[i] > OverCurrentLimit(App, i)
                    THEN overCurrentCount[i] + 1
                    ELSE 0
       /\ ~Polled' => overCurrentCount' = overCurrentCount
       /\ (steps' # steps /\ ShowCurrentLimitRan') =>
             (~shutdownA' /\ ~shutdownB' /\ overCurrentCount' = overCurrentCount)]_vars

\* C15 witness: the explicit reset has just cleared the shutdown of supply A
\* and its counter still holds the 5 over-limit polls that caused it
C15_ResetKeptCounter ==
    /\ ShowCurrentLimitRan
    /\ ~shutdownA /\ overCurrentCount[0] = 5
    /\ presses = 6

\* C16: after every step the passive display is enabled exactly when the
\* menu is in state 0; a redraw of the live readings is made only by an idle
\* pass taken with the menu in state 0; and the dirty flag is cleared by
\* nothing but a redraw, so one raised while the menu overrides the display
\* stays raised until the display is enabled again and redrawn.
C16_DisplayOverride ==
    [][/\ displayEnabled' <=> (menuState' = 0)
       /\ (steps' # steps /\ Redrew') =>
             (steps'[1] = "EV_IDLE" /\ menuState = 0 /\ menuState' = 0)
       /\ (needsDisplay /\ ~needsDisplay') => (steps' # steps /\ Redrew')]_vars

\* C16 witness: with the menu resting in state 4 after the live readings had
\* been drawn, a poll read new values and raised the dirty flag, and the idle
\* pass did not redraw
C16_DirtyKeptUnderOverride ==
    /\ Polled /\ ~Redrew
    /\ menuState = 4 /\ ~displayEnabled
    /\ everDrawn /\ changedSinceDraw /\ needsDisplay
    /\ lcd[1].kind = "limit"

\* C17: the channel index and the selected input are in 0..3; either one
\* conversion is in flight or one completed sample awaits its fold, never
\* both; while a conversion is in flight it runs on the current channel and
\* channel c holds one sample more than the count of complete rounds exactly
\* if c is below the current channel (so at a round's start all four hold the
\* same number).  A completed conversion only raises the ADC flag; the idle
\* pass that folds does so once, into the accumulator of the channel the
\* conversion ran on, advances the channel 0, 1, 2, 3, 0 and then starts the
\* next conversion on the advanced channel.
C17_AdcRoundRobin ==
    [][/\ adcCurrentChannel' \in Channels /\ adcMux' \in Channels
       /\ adcBusy' # captureADCValue'
       /\ adcBusy' =>
             /\ adcMux' = adcCurrentChannel'
             /\ \A c \in Channels :
                   adcCount'[c] = adcCurrentSamples' + (IF c < adcCurrentChannel' THEN 1 ELSE 0)
       /\ conversions' = conversions + 1 =>
             /\ adcBusy /\ ~adcBusy' /\ captureADCValue'
             /\ UNCHANGED <<adcAccumulator, adcCurrentChannel, adcCurrentSamples, adcMux>>
       /\ (steps' # steps /\ Folded') =>
             /\ captureADCValue /\ ~adcBusy /\ adcBusy'
             /\ adcMux = adcCurrentChannel
             /\ adcCurrentChannel' = (adcCurrentChannel + 1) % 4
             /\ CallsInOrder(<<"updateADC", "startConversion">>)'
             /\ Ran(steps', "startConversion")
             /\ adcAccumulator' =
                   IF adcCurrentChannel = 3 /\ adcCurrentSamples = ADCAverageCount - 1
                   THEN [c \in Channels |-> 0]
                   ELSE [adcAccumulator EXCEPT ![adcCurrentChannel] = @ + adcResult]
       /\ (steps' # steps /\ ~Folded') =>
             UNCHANGED <<adcAccumulator, adcCurrentChannel, adcCurrentSamples, adcMux>>]_vars

\* C17 witness: the fold of the last channel of the second round has just
\* wrapped the channel index to 0, channel 3 holding two full-scale samples,
\* and the next conversion runs on channel 0
C17_SecondRoundFolded ==
    /\ Folded
    /\ adcCurrentChannel = 0 /\ adcCurrentSamples = 2
    /\ adcAccumulator[3] = 2046
    /\ adcBusy /\ adcMux = 0

\* the modes a line can show: PS1VA, PS2VA, PS12A, V1V2, V3V4
LineModes == PS1VA..V3V4

\* five advances of a line, from any pair of modes, give the pair back (and
\* leave the dirty flag set)
FiveAdvancesReturn ==
    \A modes \in [0..1 -> LineModes], line \in 0..1 :
        LET a0 == [lineDisplayMode |-> modes, needsDisplay |-> FALSE]
            a1 == advanceLineDisplay(a0, line)
            a2 == advanceLineDisplay(a1, line)
            a3 == advanceLineDisplay(a2, line)
            a4 == advanceLineDisplay(a3, line)
            a5 == advanceLineDisplay(a4, line)
        IN /\ a5.lineDisplayMode = modes /\ a5.needsDisplay
           /\ \A a \in {a1, a2, a3, a4} : a.lineDisplayMode # modes

\* C18: a step that runs nextLine0 (nextLine1) moves the mode of line 0
\* (line 1) to the next of PS1VA, PS2VA, PS12A, V1V2, V3V4, PS1VA again after
\* V3V4, leaves the other line's mode and leaves the dirty flag set; no other
\* step changes a mode; no mode is ever Last; five advances return a line to
\* its mode.
C18_LineModeCycle ==
    [][/\ \A line \in 0..1 : lineDisplayMode'[line] \in LineModes
       /\ (steps' # steps /\ ButtonRan("nextLine0")') =>
             /\ lineDisplayMode' = [lineDisplayMode EXCEPT ![0] = (@ + 1) % Last]
             /\ needsDisplay'
       /\ (steps' # steps /\ ButtonRan("nextLine1")') =>
             /\ lineDisplayMode' = [lineDisplayMode EXCEPT ![1] = (@ + 1) % Last]
             /\ needsDisplay'
       /\ lineDisplayMode' # lineDisplayMode =>
             (ButtonRan("nextLine0")' \/ ButtonRan("nextLine1")')
       /\ FiveAdvancesReturn]_vars

\* C18 witness: the fifth press of button 0 has just taken line 0 from V3V4
\* back to PS1VA, line 1 still showing PS2VA, the dirty flag set
C18_LineZeroWrapped ==
    /\ ButtonRan("nextLine0")
    /\ presses = 5
    /\ lineDisplayMode[0] = PS1VA /\ lineDisplayMode[1] = PS2VA
    /\ needsDisplay

(* ------------------------------------------------------------------ *)
(* The shunt transform, over the range of the sensor's readings          *)
(* ------------------------------------------------------------------ *)

\* 16-bit shunt readings: both ends of the range, around zero, around the
\* first roundings of the transform, and some in between
WideShuntReadings ==
    {-32768, -330, -1, 0, 1, 2, 4, 5, 334, 1000, 32766, 32767}

NextShunt ==
    \/ IdlePolling(BusReadings, WideShuntReadings)
    \/ PeriodicTick

SpecShunt == Init /\ [][NextShunt]_vars

\* for every signed 16-bit reading the transform gives
\* (max(r, 0) * 100 + 165) div 330, which is not negative and is unchanged by
\* its storage in the int16_t field
ShuntTransformInRange ==
    \A r \in -32768..32767 :
        LET v == ShuntToMilliAmps(r)
        IN /\ v = ((IF r > 0 THEN r ELSE 0) * 100 + 165) \div 330
           /\ v >= 0
           /\ ToInt16(v) = v

\* C19: the shunt current a poll has stored for a supply is
\* (max(r, 0) * 100 + 165) div 330 for the reading r the sensor returned, is
\* never negative and is at most 32767; and so for every 16-bit reading.
C19_ShuntTransform ==
    /\ ShuntTransformInRange
    /\ \A i \in Supplies :
          LET r == sensorRead.shunt[i]
          IN /\ shuntMilliAmps[i] = ((IF r > 0 THEN r ELSE 0) * 100 + 165) \div 330
             /\ shuntMilliAmps[i] \in 0..32767

\* C19 witness: a poll read the largest reading on supply A (stored as 9929)
\* and the most negative one on supply B (stored as 0)
C19_ExtremeReadingsStored ==
    /\ Polled
    /\ sensorRead.shunt[0] = 32767 /\ shuntMilliAmps[0] = 9929
    /\ sensorRead.shunt[1] = -32768 /\ shuntMilliAmps[1] = 0

\* C20: after every step, with the menu in the banner or in state 0, 4, 5 or
\* 10 the pending limit index of each supply equals its committed index, and
\* in the adjust screens (states 6 and 9) that of the supply not selected
\* does; the menu leaves the adjust screens only in a step that runs
\* acceptCurLimit or rejectCurLimit.
C20_PendingIsCommittedOutsideAdjust ==
    [][/\ menuState' \in {Banner, 0, 4, 5, 10} =>
             currentLimitAdjustIndex' = currentLimitIndex'
       /\ menuState' \in {6, 9} =>
             currentLimitAdjustIndex'[1 - currentLimitAdjustSupply'] =
                 currentLimitIndex'[1 - currentLimitAdjustSupply']
       /\ menuState' \in {Banner, 0, 4, 5, 6, 9, 10}
       /\ (menuState \in {6, 9} /\ menuState' \notin {6, 9}) =>
             (ButtonRan("acceptCurLimit")' \/ ButtonRan("rejectCurLimit")')]_vars

\* C20 witness: the fifth press has just rejected an adjustment of supply A
\* (select, adjust, one inc or dec, ask, reject); the menu is in state 0 and
\* pending equals committed again
C20_AdjustmentRejected ==
    /\ ButtonRan("rejectCurLimit")
    /\ presses = 5
    /\ menuState = 0
    /\ currentLimitAdjustSupply = 0
    /\ currentLimitAdjustIndex = currentLimitIndex

(* ------------------------------------------------------------------ *)
(* Trips of either supply and their reset                               *)
(* ------------------------------------------------------------------ *)

\* button-down events delivered in one run of SpecTrip
MaxTripPresses == 2

\* The menu rests in state 6 before the first sensor poll, nothing pending:
\* each supply's limit is committed at the lowest or at the highest entry.
InitTrip ==
    /\ InitLimit
    /\ currentLimitIndex \in [Supplies -> {0, numCurLimitValues - 1}]
    /\ currentLimitAdjustIndex = currentLimitIndex

NextTrip ==
    \/ IdleNoPoll
    \/ IdlePolling(BusReadings, ShuntReadings)
    \/ PeriodicTick
    \/ PauseExpired
    \/ ButtonDown(MaxTripPresses)

SpecTrip == InitTrip /\ [][NextTrip]_vars

\* C21: in every reachable state the status LED is asserted exactly when
\* shutdown line A or shutdown line B is; and when a callback has just run
\* the reset (through showCurrentLimit) both lines and the LED are
\* de-asserted, whichever supply had tripped.
C21_StatusLedFollowsShutdown ==
    /\ statusLED <=> (shutdownA \/ shutdownB)
    /\ ShowCurrentLimitRan => (~shutdownA /\ ~shutdownB /\ ~statusLED)

\* C21 witness: supply B alone had tripped (its counter still holds the five
\* over-limit polls, that of supply A none) and the reset has just cleared
\* its line and the LED
C21_ResetAfterTripOfB ==
    /\ ShowCurrentLimitRan
    /\ overCurrentCount[1] = 5 /\ overCurrentCount[0] = 0
    /\ ~shutdownA /\ ~shutdownB /\ ~statusLED

(* ------------------------------------------------------------------ *)
(* The flags are consumed: the dispatcher keeps delivering EV_IDLE and  *)
(* the ADC finishes every conversion it was asked to start              *)
(* ------------------------------------------------------------------ *)

\* the full-scale sample of every conversion of the unbounded run
LiveSamples == {1023}

\* a conversion completes; conversions counts those of the current window
ConversionInWindow ==
    \E v \in LiveSamples :
        /\ ConversionEffect(v)
        /\ conversions' = (conversions + 1) % (4 * ADCAverageCount)

\* EV_IDLE, sent by the dispatcher on every iteration of its loop
IdlePass ==
    \/ IdleNoPoll
    \/ IdlePolling(BusReadings, {0})

NextLive ==
    \/ IdlePass
    \/ PeriodicTick
    \/ PauseExpired
    \/ ConversionInWindow

\* a flag is raised for the next idle pass
IdleDue == captureSensorValues \/ captureADCValue

\* The dispatcher sends EV_IDLE on every iteration of its loop, so a flag does
\* not stay raised for ever without an idle pass being handled.  An idle pass
\* is possible in every state and changes the state when a flag is raised, so
\* this is what weak fairness of IdlePass gives in the states with a flag
\* raised, with the enabling condition written out as IdleDue.
IdleFairness == []<>(~IdleDue) \/ []<><<IdlePass>>_vars

\* The converter finishes every conversion it was asked to start.
AdcFairness == WF_vars(ConversionInWindow)

SpecLive ==
    /\ Init
    /\ [][NextLive]_vars
    /\ IdleFairness
    /\ AdcFairness

\* the last event handled was the application's periodic tick
TickHandled == Len(steps) > 0 /\ steps[1] = "EV_EVENT_TIMER" /\ steps[2] = "timerEvent"

\* the last event handled was the completion of a conversion
ConversionHandled == Len(steps) > 0 /\ steps[1] = "EV_ADC"

\* the last event handled was an idle pass whose fold closed a window
WindowClosed == Folded /\ adcCurrentChannel = 0 /\ adcCurrentSamples = 0

\* a tick that finds the sensor flag set changes nothing of the application;
\* a poll is made by an idle pass that found the flag set, once, and clears
\* the flag; an idle pass that finds the flag clear makes no poll
OnePollPerFlag ==
    /\ (TickHandled' /\ captureSensorValues) => UNCHANGED appVars
    /\ Polled' => /\ captureSensorValues /\ ~captureSensorValues'
                  /\ CallCount("updateCurrentSensor")' = 1
    /\ (steps'[1] = "EV_IDLE" /\ ~captureSensorValues) => ~Polled'

\* C22: with idle passes recurring, every periodic tick is followed by a
\* sensor poll and every completed conversion by a fold that starts the next
\* conversion; a conversion is always in flight or waiting to be folded; a
\* window of averages is closed again and again, exactly by the fold of every
\* 64th conversion; ticks that arrive while the flag is set give one poll.
C22_FlagsConsumed ==
    /\ TickHandled ~> Polled
    /\ ConversionHandled ~> (Folded /\ adcBusy /\ ~captureADCValue)
    /\ [](adcBusy \/ captureADCValue)
    /\ []<>WindowClosed
    /\ [](Folded => (WindowClosed <=> conversions = 0))
    /\ [][OnePollPerFlag]_vars

\* C22 witness: the 64th conversion has been folded by an idle pass that also
\* made the poll a tick had asked for; the averages of the full-scale window
\* are stored and the next conversion is in flight
C22_WindowClosedByPollingPass ==
    /\ WindowClosed /\ Polled
    /\ conversions = 0
    /\ adcVoltage = [c \in Channels |-> AdcAverage(ADCAverageCount * 1023)]
    /\ adcBusy /\ ~captureADCValue /\ ~captureSensorValues

(* ------------------------------------------------------------------ *)
(* toHex and the buffer reportError gives it                            *)
(* ------------------------------------------------------------------ *)

\* error codes with one to eight significant hex digits (d * 16^k), zero, the
\* code of the other specifications and the largest positive 32-bit integer
WideErrorCodes ==
    {d * 16^k : d \in {1, 7}, k \in 0..7} \cup {d * 16^k : d \in {10, 15}, k \in 0..6}
        \cup {0, 419, 2147483647}

NextHex ==
    \/ ReportError(WideErrorCodes)
    \/ PeriodicTick

SpecHex == Init /\ [][NextHex]_vars

\* C23 (as claimed): after reportError has called toHex, every index toHex
\* wrote is one of 0..11 of the 12-byte buffer, the returned pointer is inside
\* the buffer, and it points at "0x" followed by an even number of hex digits
\* and the NUL.
C23_ToHexInsideBuffer ==
    (Len(steps) > 0 /\ steps[1] = "reportError") =>
        /\ errorBuf.written \subseteq 0..(ErrorBufSize - 1)
        /\ errorBuf.p \in 0..(ErrorBufSize - 1)
        /\ errorBuf.prefix = "0x"
        /\ Len(errorBuf.digits) % 2 = 0
        /\ \A k \in 1..Len(errorBuf.digits) : errorBuf.digits[k] \in 0..15
        /\ errorBuf.nul = errorBuf.p + 2 + Len(errorBuf.digits)
        /\ errorBuf.nul \in 0..(ErrorBufSize - 1)

====
